---- MODULE Spec2Model ----
(***************************************************************************)
(* Connection lifecycle and request/response correlation of the mirai2     *)
(* adapter (nonebot/adapters/mirai2/adapter.py).                           *)
(*                                                                         *)
(* One session task per identity runs Adapter._forward_ws; application     *)
(* calls run Adapter._call_api.  All of them are asyncio coroutines on one *)
(* event loop, so a step of the model is the code that runs between two    *)
(* awaits.  SyncIDStore lives in utils.py; it is modelled from the          *)
(* specification of the Correlation Store.                                 *)
(***************************************************************************)
EXTENDS Integers, FiniteSets, Sequences, TLC

\* ---------------------------------------------------------------- bounds
NumIds == 2          \* identities in mirai_qq
MaxCalls == 2        \* _call_api invocations in one run
MaxEvents == 1       \* event-processing tasks spawned in one run
MaxNameLen == 3      \* characters of a verb or parameter key

Ids == 1..NumIds
Calls == 0..(MaxCalls - 1)
NoCall == -1

\* ---------------------------------------------------------------- frames
\* An inbound text frame.  json = FALSE is a frame json.loads rejects.
\* syncId is <<>> when the field is absent (or empty), <<n>> otherwise.
\* data is the shape of the 'data' member:
\*   "absent"  no 'data' member
\*   "code0"   an object with code = 0, which is not an event
\*   "code1"   an object with code > 0, which is not an event
\*   "event"   an object without code that the event model decodes
SyncIds == {<<>>} \cup {<<n>> : n \in -1..(MaxCalls - 1)}
DataVals == {"absent", "code0", "code1", "event"}
Malformed == [json |-> FALSE, syncId |-> <<>>, data |-> "absent"]
Frames == {Malformed} \cup [json : {TRUE}, syncId : SyncIds, data : DataVals]
NoFrame == [json |-> FALSE, syncId |-> <<-2>>, data |-> "absent"]

HasCode(d) == d \in {"code0", "code1"}
Code(d) == IF d = "code1" THEN 1 ELSE 0
Decodable(d) == d = "event"

VARIABLES
    phase,        \* "constructed", "running", "stopping", "stopped"
    pc,           \* position of each session task in _forward_ws
    cancelReq,    \* task.cancel() was called and not yet delivered
    chan,         \* the session is inside 'async with self.websocket(...)'
    connections,  \* self.connections: "none", "live" or "stale" (closed ws)
    bot,          \* the local 'bot' of _forward_ws is not None
    driverBots,   \* bot_connect minus bot_disconnect callbacks per identity
    seenByHook,   \* the registry entry as the last callback of the identity
                  \* found it
    eventTasks,   \* asyncio.create_task(process_event(...)) calls so far
    obs,          \* the step just taken: the frame read or the call started
    nextTag,      \* SyncIDStore._sync_id
    pending,      \* SyncIDStore: the Pending Call Entries, [tag, call]
    call,         \* the _call_api invocations
    envelopes,    \* the tags of the envelopes written to a channel
    name,         \* a verb or parameter key handed to snake_to_camel
    camel         \* the results of applying snake_to_camel, then again

vars == <<phase, pc, cancelReq, chan, connections, bot, driverBots,
          seenByHook, eventTasks, obs, nextTag, pending, call, envelopes,
          name, camel>>

sessionVars == <<pc, cancelReq, chan, connections, bot, driverBots,
                 seenByHook>>
storeVars == <<nextTag, pending, call, envelopes>>
nameVars == <<name, camel>>

NoObs == [id |-> 0, frame |-> NoFrame, effect |-> "none"]
IdleCall == [pc |-> "idle", tag |-> NoCall, outcome |-> "none",
             result |-> NoFrame, ret |-> "none"]

\* ------------------------------------------------------------------ Init
Constructed ==
    /\ phase = "constructed"
    /\ pc = [i \in Ids |-> "idle"]
    /\ cancelReq = [i \in Ids |-> FALSE]
    /\ chan = [i \in Ids |-> FALSE]
    /\ connections = [i \in Ids |-> "none"]
    /\ bot = [i \in Ids |-> FALSE]
    /\ driverBots = [i \in Ids |-> 0]
    /\ seenByHook = [i \in Ids |-> "none"]
    /\ eventTasks = 0
    /\ obs = NoObs
    /\ nextTag = 0
    /\ pending = {}
    /\ call = [k \in Calls |-> IdleCall]
    /\ envelopes = {}

Init ==
    /\ Constructed
    /\ name = <<>>
    /\ camel = <<>>

\* ------------------------------------------------------- helper operators
\* self.connections.pop(bot.self_id, None)
Popped(conns, i) == [conns EXCEPT ![i] = "none"]

\* Leaving 'async with self.websocket(request) as ws' closes ws; an entry of
\* self.connections that still refers to ws now refers to a closed channel.
Released(conns, i) == [conns EXCEPT ![i] = IF @ = "live" THEN "stale" ELSE @]

\* SyncIdOrZero with an absent syncId taken as negative
SyncIdOrMinusOne(f) == IF f.syncId = <<>> THEN -1 ELSE f.syncId[1]

\* int(json_data.get('syncId') or '0')
SyncIdOrZero(f) == IF f.syncId = <<>> THEN 0 ELSE f.syncId[1]

\* the test of the receive loop: the frame goes to SyncIDStore.add_response
IsResponse(f) == SyncIdOrZero(f) >= 0

\* 'data' in json_data and json_data['data']['code'] > 0
\* (json_data['data']['code'] raises KeyError when data has no code)
HandshakeRaises(f) == ~f.json \/ (f.data # "absent" /\ ~HasCode(f.data))
HandshakeRejected(f) == f.json /\ HasCode(f.data) /\ Code(f.data) > 0
HandshakeAccepted(f) == f.json /\ ~HandshakeRaises(f) /\ ~HandshakeRejected(f)

\* Event.new({**json_data['data'], 'self_id': self_id}) raises
EventRaises(f) == f.data = "absent" \/ ~Decodable(f.data)

TaskDone(i) == pc[i] \in {"rejected", "cancelled"}

\* obs describes the step just taken and nothing else.  The steps that read
\* an inbound frame (the handshake and the receive loop) leave obs to the
\* specification: it either records the session, the frame read and the
\* branch taken, or records nothing.  The start of a call records the
\* identity it is for.
Observe(i, f, effect) == obs' = [id |-> i, frame |-> f, effect |-> effect]
Unobserved == obs' = NoObs

\* --------------------------------------------------------- start and stop
StartForward ==
    /\ phase = "constructed"
    /\ phase' = "running"
    /\ pc' = [i \in Ids |-> "connecting"]
    /\ obs' = NoObs
    /\ UNCHANGED <<cancelReq, chan, connections, bot, driverBots, seenByHook,
                   eventTasks>>
    /\ UNCHANGED storeVars
    /\ UNCHANGED nameVars

StopForward ==
    /\ phase = "running"
    /\ phase' = "stopping"
    /\ cancelReq' = [i \in Ids |-> ~TaskDone(i)]
    /\ obs' = NoObs
    /\ UNCHANGED <<pc, chan, connections, bot, driverBots, seenByHook,
                   eventTasks>>
    /\ UNCHANGED storeVars
    /\ UNCHANGED nameVars

\* asyncio.gather(*self.tasks, return_exceptions=True) has returned
StopReturn ==
    /\ phase = "stopping"
    /\ \A i \in Ids : TaskDone(i)
    /\ phase' = "stopped"
    /\ obs' = NoObs
    /\ UNCHANGED sessionVars
    /\ UNCHANGED eventTasks
    /\ UNCHANGED storeVars
    /\ UNCHANGED nameVars

\* ------------------------------------------------------------ the session
\* 'async with self.websocket(request) as ws' is entered
Connect(i) ==
    /\ pc[i] = "connecting" /\ ~cancelReq[i]
    /\ pc' = [pc EXCEPT ![i] = "handshake"]
    /\ chan' = [chan EXCEPT ![i] = TRUE]
    /\ obs' = NoObs
    /\ UNCHANGED <<phase, cancelReq, connections, bot, driverBots,
                   seenByHook, eventTasks>>
    /\ UNCHANGED storeVars
    /\ UNCHANGED nameVars

\* ConnectFail without the outer except: the error ends the task
ConnectFail_Propagates(i) ==
    /\ pc[i] = "connecting" /\ ~cancelReq[i]
    /\ pc' = [pc EXCEPT ![i] = "failed"]
    /\ obs' = NoObs
    /\ UNCHANGED <<phase, cancelReq, chan, connections, bot, driverBots,
                   seenByHook, eventTasks>>
    /\ UNCHANGED storeVars
    /\ UNCHANGED nameVars

\* self.websocket(request) raises: except Exception, then the sleep
ConnectFail(i) ==
    /\ pc[i] = "connecting" /\ ~cancelReq[i]
    /\ pc' = [pc EXCEPT ![i] = "sleep"]
    /\ obs' = NoObs
    /\ UNCHANGED <<phase, cancelReq, chan, connections, bot, driverBots,
                   seenByHook, eventTasks>>
    /\ UNCHANGED storeVars
    /\ UNCHANGED nameVars

\* the first frame cannot be read or used: except Exception, then the sleep
HandshakeError(i) ==
    /\ pc[i] = "handshake" /\ ~cancelReq[i]
    /\ pc' = [pc EXCEPT ![i] = "sleep"]
    /\ chan' = [chan EXCEPT ![i] = FALSE]
    /\ connections' = Released(connections, i)
    /\ UNCHANGED <<phase, cancelReq, bot, driverBots, seenByHook, eventTasks>>
    /\ UNCHANGED storeVars
    /\ UNCHANGED nameVars

\* the first frame is read and carries no rejection, but it raises
HandshakeBadFrame(i, f) ==
    /\ HandshakeRaises(f)
    /\ HandshakeError(i)

\* HandshakeReject without the return: the rejection is retried
HandshakeReject_Retries(i, f) ==
    /\ pc[i] = "handshake" /\ ~cancelReq[i]
    /\ HandshakeRejected(f)
    /\ pc' = [pc EXCEPT ![i] = "sleep"]
    /\ chan' = [chan EXCEPT ![i] = FALSE]
    /\ connections' = Released(connections, i)
    /\ UNCHANGED <<phase, cancelReq, bot, driverBots, seenByHook, eventTasks>>
    /\ UNCHANGED storeVars
    /\ UNCHANGED nameVars

\* HandshakeReject that ends the adapter: the return replaced by a stop that
\* cancels every task
HandshakeReject_StopsAll(i, f) ==
    /\ pc[i] = "handshake" /\ ~cancelReq[i]
    /\ HandshakeRejected(f)
    /\ pc' = [pc EXCEPT ![i] = "rejected"]
    /\ cancelReq' = [j \in Ids |-> j # i /\ ~TaskDone(j)]
    /\ chan' = [chan EXCEPT ![i] = FALSE]
    /\ connections' = Released(connections, i)
    /\ UNCHANGED <<phase, bot, driverBots, seenByHook, eventTasks>>
    /\ UNCHANGED storeVars
    /\ UNCHANGED nameVars

\* the first frame carries data.code > 0: log and return
HandshakeReject(i, f) ==
    /\ pc[i] = "handshake" /\ ~cancelReq[i]
    /\ HandshakeRejected(f)
    /\ pc' = [pc EXCEPT ![i] = "rejected"]
    /\ chan' = [chan EXCEPT ![i] = FALSE]
    /\ connections' = Released(connections, i)
    /\ UNCHANGED <<phase, cancelReq, bot, driverBots, seenByHook, eventTasks>>
    /\ UNCHANGED storeVars
    /\ UNCHANGED nameVars

\* the first frame is accepted: registry write, Bot(...), bot_connect
HandshakeAccept(i, f) ==
    /\ pc[i] = "handshake" /\ ~cancelReq[i]
    /\ HandshakeAccepted(f)
    /\ connections' = [connections EXCEPT ![i] = "live"]
    /\ bot' = [bot EXCEPT ![i] = TRUE]
    /\ driverBots' = [driverBots EXCEPT ![i] = @ + 1]
    /\ seenByHook' = [seenByHook EXCEPT ![i] = connections'[i]]
    /\ pc' = [pc EXCEPT ![i] = "open"]
    /\ UNCHANGED <<phase, cancelReq, chan, eventTasks>>
    /\ UNCHANGED storeVars
    /\ UNCHANGED nameVars

\* the first frame is accepted, the registry is written, and bot_connect
\* raises (the driver refuses the bot): except Exception, then the sleep
HandshakeAcceptRaises(i, f) ==
    /\ pc[i] = "handshake" /\ ~cancelReq[i]
    /\ HandshakeAccepted(f)
    /\ bot' = [bot EXCEPT ![i] = TRUE]
    /\ connections' = Released([connections EXCEPT ![i] = "live"], i)
    /\ chan' = [chan EXCEPT ![i] = FALSE]
    /\ pc' = [pc EXCEPT ![i] = "sleep"]
    /\ UNCHANGED <<phase, cancelReq, driverBots, seenByHook, eventTasks>>
    /\ UNCHANGED storeVars
    /\ UNCHANGED nameVars

\* Finally without self.connections.pop
Finally_KeepsEntry(i) ==
    /\ connections' = Released(connections, i)
    /\ driverBots' = [driverBots EXCEPT ![i] = IF bot[i] THEN @ - 1 ELSE @]
    /\ seenByHook' = [seenByHook EXCEPT ![i] = IF bot[i] THEN connections[i]
                                                         ELSE @]
    /\ bot' = [bot EXCEPT ![i] = FALSE]
    /\ chan' = [chan EXCEPT ![i] = FALSE]

\* Finally with bot_disconnect called before self.connections.pop
Finally_DisconnectsFirst(i) ==
    /\ connections' = Released(IF bot[i] THEN Popped(connections, i)
                                         ELSE connections, i)
    /\ driverBots' = [driverBots EXCEPT ![i] = IF bot[i] THEN @ - 1 ELSE @]
    /\ seenByHook' = [seenByHook EXCEPT ![i] = IF bot[i] THEN connections[i]
                                                         ELSE @]
    /\ bot' = [bot EXCEPT ![i] = FALSE]
    /\ chan' = [chan EXCEPT ![i] = FALSE]

\* the finally block of the receive loop followed by the exit of the
\* 'async with' block
Finally(i) ==
    /\ connections' = Released(IF bot[i] THEN Popped(connections, i)
                                         ELSE connections, i)
    /\ driverBots' = [driverBots EXCEPT ![i] = IF bot[i] THEN @ - 1 ELSE @]
    /\ seenByHook' = [seenByHook EXCEPT ![i] =
                         IF bot[i] THEN Popped(connections, i)[i] ELSE @]
    /\ bot' = [bot EXCEPT ![i] = FALSE]
    /\ chan' = [chan EXCEPT ![i] = FALSE]

\* asyncio.sleep(RECONNECT_INTERVAL) is over: next iteration of the loop
Wake(i) ==
    /\ pc[i] = "sleep" /\ ~cancelReq[i]
    /\ pc' = [pc EXCEPT ![i] = "connecting"]
    /\ obs' = NoObs
    /\ UNCHANGED <<phase, cancelReq, chan, connections, bot, driverBots,
                   seenByHook, eventTasks>>
    /\ UNCHANGED storeVars
    /\ UNCHANGED nameVars

\* CancelledError is delivered at the await the task is suspended in
Cancelled(i) ==
    /\ cancelReq[i] /\ ~TaskDone(i)
    /\ cancelReq' = [cancelReq EXCEPT ![i] = FALSE]
    /\ pc' = [pc EXCEPT ![i] = "cancelled"]
    /\ IF pc[i] = "open"
         THEN Finally(i)
         ELSE /\ chan' = [chan EXCEPT ![i] = FALSE]
              /\ connections' = Released(connections, i)
              /\ UNCHANGED <<bot, driverBots, seenByHook>>
    /\ obs' = NoObs
    /\ UNCHANGED <<phase, eventTasks>>
    /\ UNCHANGED storeVars
    /\ UNCHANGED nameVars

\* ------------------------------------------------------- the receive loop
\* SyncIDStore.add_response(json_data): the Pending Call Entries the frame
\* resolves (those registered under the frame's syncId)
Matching(f) == {e \in pending : f.syncId = <<e.tag>>}

\* SyncIDStore.add_response(json_data): the waiter is fulfilled with the
\* frame and the entry is removed; without a matching entry nothing happens
add_response(f) ==
    /\ pending' = pending \ Matching(f)
    /\ call' = [k \in Calls |->
                  IF \E e \in Matching(f) : e.call = k
                    THEN [call[k] EXCEPT !.pc = "resolved", !.result = f]
                    ELSE call[k]]
    /\ UNCHANGED <<nextTag, envelopes>>

\* ReceiveResponse that raises on a frame no Pending Call Entry matches
ReceiveResponse_RaisesOnUnknown(i, f) ==
    /\ pc[i] = "open" /\ ~cancelReq[i]
    /\ f.json /\ IsResponse(f)
    /\ IF Matching(f) = {}
         THEN /\ Finally(i)
              /\ pc' = [pc EXCEPT ![i] = "sleep"]
              /\ UNCHANGED cancelReq
              /\ UNCHANGED storeVars
         ELSE /\ add_response(f)
              /\ UNCHANGED sessionVars
    /\ UNCHANGED <<phase, eventTasks>>
    /\ UNCHANGED nameVars

\* a frame with int(syncId or '0') >= 0: add_response, continue
ReceiveResponse(i, f) ==
    /\ pc[i] = "open" /\ ~cancelReq[i]
    /\ f.json /\ IsResponse(f)
    /\ add_response(f)
    /\ UNCHANGED <<phase, eventTasks>>
    /\ UNCHANGED sessionVars
    /\ UNCHANGED nameVars

\* ReceiveEvent that spawns the task twice
ReceiveEvent_SpawnsTwice(i, f) ==
    /\ pc[i] = "open" /\ ~cancelReq[i]
    /\ f.json /\ ~IsResponse(f) /\ ~EventRaises(f)
    /\ eventTasks < MaxEvents
    /\ eventTasks' = eventTasks + 2
    /\ UNCHANGED phase
    /\ UNCHANGED sessionVars
    /\ UNCHANGED storeVars
    /\ UNCHANGED nameVars

\* a frame with a negative syncId whose event decodes: create_task
ReceiveEvent(i, f) ==
    /\ pc[i] = "open" /\ ~cancelReq[i]
    /\ f.json /\ ~IsResponse(f) /\ ~EventRaises(f)
    /\ eventTasks < MaxEvents
    /\ eventTasks' = eventTasks + 1
    /\ UNCHANGED phase
    /\ UNCHANGED sessionVars
    /\ UNCHANGED storeVars
    /\ UNCHANGED nameVars

\* json.loads or Event.new raises inside the loop: except Exception, the
\* finally block, the exit of 'async with', then the sleep
ReceiveRaises(i, f) ==
    /\ pc[i] = "open" /\ ~cancelReq[i]
    /\ ~f.json \/ (~IsResponse(f) /\ EventRaises(f))
    /\ Finally(i)
    /\ pc' = [pc EXCEPT ![i] = "sleep"]
    /\ UNCHANGED <<phase, cancelReq, eventTasks>>
    /\ UNCHANGED storeVars
    /\ UNCHANGED nameVars

\* ws.receive() raises WebSocketClosed or a read error inside the loop
ReceiveClosed(i) ==
    /\ pc[i] = "open" /\ ~cancelReq[i]
    /\ Finally(i)
    /\ pc' = [pc EXCEPT ![i] = "sleep"]
    /\ UNCHANGED <<phase, cancelReq, eventTasks>>
    /\ UNCHANGED storeVars
    /\ UNCHANGED nameVars

\* ------------------------------------------------------------- _call_api
\* the invocation that starts next
NextCall == CHOOSE k \in Calls : call[k].pc = "idle" /\
                                 \A j \in Calls : j < k => call[j].pc # "idle"

\* SyncIDStore.get_id(): the tag returned
get_id == nextTag

Fail(k, t, why) ==
    [call EXCEPT ![k] = [pc |-> "done", tag |-> t, outcome |-> why,
                         result |-> NoFrame, ret |-> "none"]]

\* CallStart with the Pending Call Entry registered before the lookup
CallStart_RegistersFirst(i, sendOk) ==
    /\ \E k \in Calls : call[k].pc = "idle"
    /\ nextTag' = nextTag + 1
    /\ pending' = pending \cup {[tag |-> get_id, call |-> NextCall]}
    /\ IF connections[i] = "none"
         THEN /\ call' = Fail(NextCall, get_id, "NotConnected")
              /\ UNCHANGED envelopes
         ELSE IF connections[i] = "stale" \/ ~sendOk
           THEN /\ call' = Fail(NextCall, get_id, "SendFailed")
                /\ UNCHANGED envelopes
           ELSE /\ call' = [call EXCEPT ![NextCall] =
                              [pc |-> "sending", tag |-> get_id,
                               outcome |-> "none", result |-> NoFrame,
                               ret |-> "none"]]
                /\ envelopes' = envelopes \cup {get_id}
    /\ Observe(i, NoFrame, "call")
    /\ UNCHANGED <<phase, eventTasks>>
    /\ UNCHANGED sessionVars
    /\ UNCHANGED nameVars

\* CallStart that sends whatever the lookup finds
CallStart_NoLookupError(i, sendOk) ==
    /\ \E k \in Calls : call[k].pc = "idle"
    /\ nextTag' = nextTag + 1
    /\ IF connections[i] # "live" \/ ~sendOk
         THEN /\ call' = Fail(NextCall, get_id, "SendFailed")
              /\ UNCHANGED envelopes
         ELSE /\ call' = [call EXCEPT ![NextCall] =
                            [pc |-> "sending", tag |-> get_id,
                             outcome |-> "none", result |-> NoFrame,
                             ret |-> "none"]]
              /\ envelopes' = envelopes \cup {get_id}
    /\ Observe(i, NoFrame, "call")
    /\ UNCHANGED <<phase, eventTasks, pending>>
    /\ UNCHANGED sessionVars
    /\ UNCHANGED nameVars

\* get_id, the registry lookup and the start of ws.send
CallStart(i, sendOk) ==
    /\ \E k \in Calls : call[k].pc = "idle"
    /\ nextTag' = nextTag + 1
    /\ IF connections[i] = "none"
         THEN /\ call' = Fail(NextCall, get_id, "NotConnected")
              /\ UNCHANGED envelopes
         ELSE IF connections[i] = "stale" \/ ~sendOk
           THEN /\ call' = Fail(NextCall, get_id, "SendFailed")
                /\ UNCHANGED envelopes
           ELSE /\ call' = [call EXCEPT ![NextCall] =
                              [pc |-> "sending", tag |-> get_id,
                               outcome |-> "none", result |-> NoFrame,
                               ret |-> "none"]]
                /\ envelopes' = envelopes \cup {get_id}
    /\ Observe(i, NoFrame, "call")
    /\ UNCHANGED <<phase, eventTasks, pending>>
    /\ UNCHANGED sessionVars
    /\ UNCHANGED nameVars

\* CallAwait with fetch_response called with a constant tag instead of sync_id
CallAwait_ConstantTag(k) ==
    /\ call[k].pc = "sending"
    /\ pending' = pending \cup {[tag |-> 0, call |-> k]}
    /\ call' = [call EXCEPT ![k].pc = "await"]
    /\ obs' = NoObs
    /\ UNCHANGED <<phase, eventTasks, nextTag, envelopes>>
    /\ UNCHANGED sessionVars
    /\ UNCHANGED nameVars

\* ws.send has returned; SyncIDStore.fetch_response(sync_id, timeout)
\* registers the Pending Call Entry and waits
CallAwait(k) ==
    /\ call[k].pc = "sending"
    /\ pending' = pending \cup {[tag |-> call[k].tag, call |-> k]}
    /\ call' = [call EXCEPT ![k].pc = "await"]
    /\ obs' = NoObs
    /\ UNCHANGED <<phase, eventTasks, nextTag, envelopes>>
    /\ UNCHANGED sessionVars
    /\ UNCHANGED nameVars

\* fetch_response: the timeout elapses; the entry is removed
CallTimeout(k) ==
    /\ call[k].pc = "await"
    /\ pending' = {e \in pending : e.call # k}
    /\ call' = [call EXCEPT ![k].pc = "done", ![k].outcome = "CallTimeout"]
    /\ obs' = NoObs
    /\ UNCHANGED <<phase, eventTasks, nextTag, envelopes>>
    /\ UNCHANGED sessionVars
    /\ UNCHANGED nameVars

\* RemoteFailed with a missing code taken as 0
RemoteFailed_MissingCodeIsZero(result) ==
    result.data = "absent" \/ (HasCode(result.data) /\ Code(result.data) # 0)

\* ('data' not in result) or (result['data'].get('code') != 0)
RemoteFailed(result) == ~(HasCode(result.data) /\ Code(result.data) = 0)

\* CallReturn that returns nothing instead of raising ActionFailed
CallReturn_NoRaise(k) ==
    /\ call[k].pc = "resolved"
    /\ call' = [call EXCEPT
                  ![k].pc = "done",
                  ![k].outcome = IF RemoteFailed(call[k].result)
                                   THEN "none" ELSE "ok",
                  ![k].ret = IF RemoteFailed(call[k].result)
                               THEN "none" ELSE call[k].result.data]
    /\ obs' = NoObs
    /\ UNCHANGED <<phase, eventTasks, nextTag, pending, envelopes>>
    /\ UNCHANGED sessionVars
    /\ UNCHANGED nameVars

\* fetch_response has returned the payload: ActionFailed or result['data']
CallReturn(k) ==
    /\ call[k].pc = "resolved"
    /\ call' = [call EXCEPT
                  ![k].pc = "done",
                  ![k].outcome = IF RemoteFailed(call[k].result)
                                   THEN "RemoteCallFailed" ELSE "ok",
                  ![k].ret = IF RemoteFailed(call[k].result)
                               THEN "none" ELSE call[k].result.data]
    /\ obs' = NoObs
    /\ UNCHANGED <<phase, eventTasks, nextTag, pending, envelopes>>
    /\ UNCHANGED sessionVars
    /\ UNCHANGED nameVars

\* ------------------------------------------------------------------ Next
Next ==
    \/ StartForward
    \/ StopForward
    \/ StopReturn
    \/ \E i \in Ids : Connect(i)
    \/ \E i \in Ids : ConnectFail(i)
    \/ \E i \in Ids : HandshakeError(i) /\ Observe(i, NoFrame, "hs_closed")
    \/ \E i \in Ids, f \in Frames : HandshakeBadFrame(i, f)
              /\ Observe(i, f, "hs_raised")
    \/ \E i \in Ids, f \in Frames : HandshakeReject(i, f)
              /\ Observe(i, f, "rejected")
    \/ \E i \in Ids, f \in Frames : HandshakeAccept(i, f)
              /\ Observe(i, f, "accepted")
    \/ \E i \in Ids, f \in Frames : HandshakeAcceptRaises(i, f)
              /\ Observe(i, f, "accept_raised")
    \/ \E i \in Ids, f \in Frames : ReceiveResponse(i, f)
              /\ Observe(i, f, "forwarded")
    \/ \E i \in Ids, f \in Frames : ReceiveEvent(i, f)
              /\ Observe(i, f, "dispatched")
    \/ \E i \in Ids, f \in Frames : ReceiveRaises(i, f)
              /\ Observe(i, f, "raised")
    \/ \E i \in Ids : ReceiveClosed(i) /\ Observe(i, NoFrame, "closed")
    \/ \E i \in Ids : Wake(i)
    \/ \E i \in Ids : Cancelled(i)
    \/ \E i \in Ids, sendOk \in BOOLEAN : CallStart(i, sendOk)
    \/ \E k \in Calls : CallAwait(k)
    \/ \E k \in Calls : CallTimeout(k)
    \/ \E k \in Calls : CallReturn(k)

Spec == Init /\ [][Next]_vars

\* the sessions alone: the application issues no call
SessionNext ==
    \/ StartForward
    \/ StopForward
    \/ StopReturn
    \/ \E i \in Ids : Connect(i)
    \/ \E i \in Ids : ConnectFail(i)
    \/ \E i \in Ids : HandshakeError(i) /\ Observe(i, NoFrame, "hs_closed")
    \/ \E i \in Ids, f \in Frames : HandshakeBadFrame(i, f)
              /\ Observe(i, f, "hs_raised")
    \/ \E i \in Ids, f \in Frames : HandshakeReject(i, f)
              /\ Observe(i, f, "rejected")
    \/ \E i \in Ids, f \in Frames : HandshakeAccept(i, f)
              /\ Observe(i, f, "accepted")
    \/ \E i \in Ids, f \in Frames : HandshakeAcceptRaises(i, f)
              /\ Observe(i, f, "accept_raised")
    \/ \E i \in Ids, f \in Frames : ReceiveResponse(i, f)
              /\ Observe(i, f, "forwarded")
    \/ \E i \in Ids, f \in Frames : ReceiveEvent(i, f)
              /\ Observe(i, f, "dispatched")
    \/ \E i \in Ids, f \in Frames : ReceiveRaises(i, f)
              /\ Observe(i, f, "raised")
    \/ \E i \in Ids : ReceiveClosed(i) /\ Observe(i, NoFrame, "closed")
    \/ \E i \in Ids : Wake(i)
    \/ \E i \in Ids : Cancelled(i)

SessionSpec == Init /\ [][SessionNext]_vars

\* the sessions under the scheduling of the event loop: the reconnect sleep
\* ends and a cancellation is delivered
FairSessionSpec ==
    /\ SessionSpec
    /\ \A i \in Ids : WF_vars(Wake(i))
    /\ \A i \in Ids : WF_vars(Cancelled(i))

\* The frames of the call scenario.  Without obs, the first frame of a
\* connection acts through its data only, a frame that raises in the loop
\* acts like any other one, and a response to a tag that was never written
\* to a channel resolves nothing: one frame of each kind is enough.
FirstFrames == {f \in Frames : f.syncId = <<>>}
AnswerFrames ==
    {f \in Frames : f.json /\ f.syncId # <<>> /\ f.syncId[1] \in envelopes}

\* the calls: the driver accepts every bot and does not shut down, and the
\* gateway pushes no event
CallNext ==
    \/ StartForward
    \/ \E i \in Ids : Connect(i)
    \/ \E i \in Ids : ConnectFail(i)
    \/ \E i \in Ids : HandshakeError(i) /\ Unobserved
    \/ \E i \in Ids, f \in FirstFrames : HandshakeBadFrame(i, f) /\ Unobserved
    \/ \E i \in Ids, f \in FirstFrames : HandshakeReject(i, f) /\ Unobserved
    \/ \E i \in Ids, f \in FirstFrames : HandshakeAccept(i, f) /\ Unobserved
    \/ \E i \in Ids, f \in AnswerFrames : ReceiveResponse(i, f) /\ Unobserved
    \/ \E i \in Ids : ReceiveRaises(i, Malformed) /\ Unobserved
    \/ \E i \in Ids : ReceiveClosed(i) /\ Unobserved
    \/ \E i \in Ids : Wake(i)
    \/ \E i \in Ids, sendOk \in BOOLEAN : CallStart(i, sendOk)
    \/ \E k \in Calls : CallAwait(k)
    \/ \E k \in Calls : CallTimeout(k)
    \/ \E k \in Calls : CallReturn(k)

CallSpec == Init /\ [][CallNext]_vars

TypeOK ==
    /\ phase \in {"constructed", "running", "stopping", "stopped"}
    /\ pc \in [Ids -> {"idle", "connecting", "handshake", "open", "sleep",
                       "rejected", "cancelled"}]
    /\ connections \in [Ids -> {"none", "live", "stale"}]
    /\ eventTasks \in 0..MaxEvents
    /\ nextTag \in 0..MaxCalls

\* the calls under the scheduling of the event loop: while some call can
\* resume (its send returned, its response is there, its timer fired), the
\* loop resumes one
FairCallSpec ==
    /\ CallSpec
    /\ WF_vars(\E k \in Calls : CallAwait(k) \/ CallTimeout(k) \/ CallReturn(k))

\* -------------------------------------------------------- snake_to_camel
\* A name is a sequence of characters; a character is a lowercase letter,
\* an uppercase letter, the underscore or a digit.
Chars == {"a", "A", "_", "1"}
Names == UNION {[1..n -> Chars] : n \in 0..MaxNameLen}

IsCased(c) == c \in {"a", "A"}
LowerChar(c) == IF c = "A" THEN "a" ELSE c
UpperChar(c) == IF c = "a" THEN "A" ELSE c

\* str.lower()
lower(s) == [j \in 1..Len(s) |-> LowerChar(s[j])]

\* str.title(): a cased character is uppercased when the character before
\* it is not cased, lowercased when it is
title(s) ==
    [j \in 1..Len(s) |->
        IF j > 1 /\ IsCased(s[j - 1]) THEN LowerChar(s[j]) ELSE UpperChar(s[j])]

\* str.split('_')
RECURSIVE split(_)
split(s) ==
    IF \A j \in 1..Len(s) : s[j] # "_"
      THEN <<s>>
      ELSE LET j == CHOOSE m \in 1..Len(s) :
                        s[m] = "_" /\ \A l \in 1..(m - 1) : s[l] # "_"
           IN <<SubSeq(s, 1, j - 1)>> \o split(SubSeq(s, j + 1, Len(s)))

\* ''.join(parts)
RECURSIVE join(_)
join(parts) ==
    IF parts = <<>> THEN <<>> ELSE Head(parts) \o join(Tail(parts))

\* first, *rest = name.split('_')
\* ''.join([first.lower(), *(r.title() for r in rest)])
snake_to_camel(n) ==
    LET first == Head(split(n))
        rest == Tail(split(n))
    IN join(<<lower(first)>> \o [j \in 1..Len(rest) |-> title(rest[j])])

\* a name is handed to snake_to_camel
NameInit ==
    /\ Constructed
    /\ name \in Names
    /\ camel = <<>>

\* snake_to_camel is applied to the name, then to its own result
Normalize ==
    /\ Len(camel) < 2
    /\ camel' = Append(camel, snake_to_camel(IF camel = <<>>
                                               THEN name
                                               ELSE camel[Len(camel)]))
    /\ UNCHANGED name
    /\ UNCHANGED <<phase, eventTasks, obs>>
    /\ UNCHANGED sessionVars
    /\ UNCHANGED storeVars

NameSpec == NameInit /\ [][Normalize]_vars

\* ================================================================= claims
Outcomes == {"ok", "NotConnected", "SendFailed", "CallTimeout",
             "RemoteCallFailed"}

Awaiting == {k \in Calls : call[k].pc = "await"}

\* the step resolves call k
NewlyResolved(k) == call[k].pc = "await" /\ call'[k].pc = "resolved"

\* C1: a step of a receive loop resolves at most one call, and the payload a
\* call is resolved with carries the syncId that is the call's tag, whatever
\* the interleaving of the calls and the arrival order of the responses.
C1_NoCrossTalk ==
    [][\A k \in Calls :
          /\ NewlyResolved(k) =>
                 /\ call'[k].result.syncId = <<call[k].tag>>
                 /\ \A j \in Calls : NewlyResolved(j) => j = k
          /\ call[k].pc = "resolved" =>
                 /\ call[k].result.syncId = <<call[k].tag>>
                 /\ call'[k].pc = "done" =>
                        call'[k].ret \in {"none", call[k].result.data}
      ]_vars

\* the second call is resolved while the first call, sent earlier, still waits
C1_Witness ==
    /\ call[0].pc = "await"
    /\ call[1].pc = "resolved"
    /\ call[1].result.syncId = <<1>>

\* C2: no call stays pending forever (from some point on every call that has
\* started is complete), and a call is complete exactly when it has one of
\* the five outcomes.
C2_CallCompletes ==
    /\ <>[](\A k \in Calls : call[k].pc \in {"idle", "done"})
    /\ [](\A k \in Calls : call[k].pc = "done" <=> call[k].outcome \in Outcomes)

\* a call has timed out and the session it was sent on has been rejected on
\* its reconnect
C2_Witness ==
    \E k \in Calls :
        /\ call[k].pc = "done" /\ call[k].outcome = "CallTimeout"
        /\ k \in envelopes
        /\ \E i \in Ids : pc[i] = "rejected"

\* the Pending Call Entries are exactly those of the waiting calls, and a
\* call that timed out has none
NoEntryLeaked ==
    /\ \A k \in Calls : call[k].outcome = "CallTimeout" =>
           /\ call[k].pc = "done"
           /\ \A e \in pending : e.call # k /\ e.tag # call[k].tag
    /\ Cardinality(pending) = Cardinality(Awaiting)
    /\ \A e \in pending : e.call \in Awaiting /\ e.tag = call[e.call].tag

\* C3: a waiting call that ends without a response ends with CallTimeout; a
\* call that timed out has no Pending Call Entry, and the pending entries are
\* exactly those of the calls that wait for a response.
C3_TimeoutLeavesNoEntry ==
    /\ []NoEntryLeaked
    /\ [][\A k \in Calls :
            (call[k].pc = "await" /\ call'[k].pc \notin {"await", "resolved"})
            => /\ call'[k].pc = "done"
               /\ call'[k].outcome = "CallTimeout"
               /\ \A e \in pending' : e.tag # call[k].tag
         ]_vars

\* one call has timed out while another one still waits
C3_Witness ==
    /\ call[0].outcome = "CallTimeout"
    /\ call[1].pc = "await"
    /\ Cardinality(pending) = 1

\* C5: a call that starts for an identity without a registry entry fails with
\* NotConnected and writes no envelope.
C5_NotConnected ==
    [][\A k \in Calls :
          (call[k].pc = "idle" /\ call'[k].pc # "idle"
             /\ connections[obs'.id] = "none")
          => /\ call'[k].pc = "done"
             /\ call'[k].outcome = "NotConnected"
             /\ envelopes' = envelopes
      ]_vars

\* a call in the reconnect gap of a session that was open before
C5_Witness ==
    \E k \in Calls :
        /\ obs.effect = "call"
        /\ call[k].outcome = "NotConnected"
        /\ k \notin envelopes
        /\ pc[obs.id] = "sleep"
        /\ connections[obs.id] = "none"
        /\ \E j \in Calls : j < k /\ j \in envelopes


\* the step just taken is a read of session i in its receive loop
LoopRead(i) ==
    obs'.id = i /\ obs'.effect \in {"forwarded", "dispatched", "raised"}

\* the step just taken is the read of the first frame of session i
HandshakeRead(i) ==
    obs'.id = i /\ obs'.effect \in {"hs_raised", "rejected", "accepted",
                                    "accept_raised"}

\* C4: when the connection of an Open session drops, the step removes the
\* registry entry, fires the disconnect callback once and releases the
\* channel; no further disconnect fires before the session is Open again; the
\* session then sleeps and, unless it is cancelled, starts a connect attempt.
C4_DropThenReconnect ==
    /\ [][\A i \in Ids :
            /\ (obs'.id = i /\ obs'.effect = "closed") =>
                   /\ pc[i] = "open" /\ pc'[i] = "sleep"
                   /\ connections[i] = "live" /\ connections'[i] = "none"
                   /\ driverBots'[i] = driverBots[i] - 1
                   /\ ~chan'[i]
            /\ driverBots'[i] < driverBots[i] => pc[i] = "open"
            /\ (pc[i] = "sleep" /\ pc'[i] # "sleep") =>
                   pc'[i] \in {"connecting", "cancelled"}
         ]_vars
    /\ \A i \in Ids : (pc[i] = "sleep") ~> (pc[i] \in {"connecting", "cancelled"})

\* the connection of a session has just dropped
C4_Witness ==
    /\ obs.effect = "closed"
    /\ pc[obs.id] = "sleep"
    /\ connections[obs.id] = "none"
    /\ driverBots[obs.id] = 0
    /\ \E j \in Ids : j # obs.id /\ pc[j] = "open"

SpecPushFrame(f) ==
    f.json /\ (f.syncId = <<>> \/ f.syncId[1] < 0) /\ Decodable(f.data)

\* a push-event frame as the gateway sends it: a negative syncId
NegativePushFrame(f) ==
    f.json /\ f.syncId # <<>> /\ f.syncId[1] < 0 /\ Decodable(f.data)

DecodeError(f) ==
    ~f.json \/ (f.syncId # <<>> /\ f.syncId[1] < 0 /\ ~Decodable(f.data))

\* C9: a frame that cannot be decoded is skipped: the session stays Open,
\* keeps its registry entry and fires no disconnect callback.
C9_DecodeErrorSkipped ==
    [][\A i \in Ids :
          (LoopRead(i) /\ DecodeError(obs'.frame)) =>
              /\ pc'[i] = "open"
              /\ connections'[i] = connections[i]
              /\ driverBots'[i] = driverBots[i]
      ]_vars

\* C10: stop_forward cancels every task that is not done and returns when
\* all have ended; a cancelled session has released its channel and removed
\* its registry entry, so the registry is empty when stop_forward returns.
C10_StopLeavesNothing ==
    /\ \A i \in Ids : cancelReq[i] => phase = "stopping"
    /\ \A i \in Ids : pc[i] = "cancelled" =>
           ~chan[i] /\ connections[i] = "none"
    /\ phase = "stopped" =>
           \A i \in Ids : TaskDone(i) /\ ~chan[i] /\ connections[i] = "none"

\* C11: when the channel write of a call fails, the call fails with
\* SendFailed and the session of that identity is torn down: its registry
\* entry is removed, its disconnect callback fires and it leaves Open.
C11_SendFailureTearsDown ==
    [][\A k \in Calls :
          (call[k].pc = "idle" /\ call'[k].pc # "idle"
             /\ call'[k].outcome = "SendFailed") =>
              /\ connections'[obs'.id] = "none"
              /\ driverBots'[obs'.id] = 0
              /\ pc'[obs'.id] # "open"
      ]_vars

\* The frames of the store scenario: the store looks at the syncId of a
\* frame only, so the payloads are those with a code.
StoreFrames == {f \in Frames : f.json /\ HasCode(f.data)}

\* the Correlation Store under the frames of the receive loops: the sessions
\* connect and are accepted, the application issues calls whose channel write
\* succeeds, and every frame a receive loop forwards to the store is recorded
\* in obs
StoreNext ==
    \/ StartForward
    \/ \E i \in Ids : Connect(i)
    \/ \E i \in Ids, f \in FirstFrames : HandshakeAccept(i, f) /\ Unobserved
    \/ \E i \in Ids, f \in StoreFrames : ReceiveResponse(i, f)
              /\ Observe(i, f, "forwarded")
    \/ \E i \in Ids : CallStart(i, TRUE)
    \/ \E k \in Calls : CallAwait(k)
    \/ \E k \in Calls : CallTimeout(k)
    \/ \E k \in Calls : CallReturn(k)

StoreSpec == Init /\ [][StoreNext]_vars

\* the frame carries the tag of no Pending Call Entry
Unmatched(f) == \A e \in pending : f.syncId # <<e.tag>>

\* C12: a response frame whose tag matches no pending call is a no-op: the
\* session that read it stays as it is, no session changes, every call keeps
\* its state and result slot, and the pending entries are unchanged.
C12_UnmatchedIsNoOp ==
    [][(obs'.effect = "forwarded" /\ Unmatched(obs'.frame)) =>
          /\ pc'[obs'.id] = "open"
          /\ UNCHANGED sessionVars
          /\ UNCHANGED <<pending, call, nextTag, envelopes>>
          /\ Cardinality(pending') = Cardinality(pending)
      ]_vars

\* a response to a call that has timed out was read while another call waits
C12_Witness ==
    /\ obs.effect = "forwarded"
    /\ obs.frame.syncId = <<0>>
    /\ call[0].outcome = "CallTimeout"
    /\ call[1].pc = "await"
    /\ pending = {[tag |-> 1, call |-> 1]}

\* C13: snake_to_camel is idempotent: applying it to its own result returns
\* that result unchanged (aA, as sendGroupMessage, stays aA); and a_a, as
\* send_group_message and target_id, maps to aA.
C13_Idempotent ==
    /\ Len(camel) = 2 => camel[2] = camel[1]
    /\ (name = <<"a", "A">> /\ Len(camel) >= 1) => camel[1] = name
    /\ (name = <<"a", "_", "a">> /\ Len(camel) >= 1) => camel[1] = <<"a", "A">>

\* C14: a call that returns from a resolved payload returns the payload's
\* data object exactly when the payload has a data object whose code is 0;
\* in every other case (code non-zero, code missing, data missing) it fails
\* with RemoteCallFailed and returns nothing.
C14_DataIffCodeZero ==
    [][\A k \in Calls :
          (call[k].pc = "resolved" /\ call'[k].pc # "resolved") =>
              /\ call'[k].pc = "done"
              /\ call[k].result.data = "code0" =>
                     /\ call'[k].outcome = "ok"
                     /\ call'[k].ret = call[k].result.data
              /\ call[k].result.data \in {"code1", "event", "absent"} =>
                     /\ call'[k].outcome = "RemoteCallFailed"
                     /\ call'[k].ret = "none"
      ]_vars

\* one call has returned its data object, another one has failed on a
\* payload whose data has no code
C14_Witness ==
    \E k, j \in Calls :
        /\ call[k].pc = "done" /\ call[k].outcome = "ok"
        /\ call[k].ret = "code0" /\ call[k].result.data = "code0"
        /\ call[j].pc = "done" /\ call[j].outcome = "RemoteCallFailed"
        /\ call[j].ret = "none" /\ call[j].result.data = "event"

\* C15: the Pending Call Entry of a call is registered before its envelope
\* is written, so a response read at any point after the send started
\* (including before the caller resumes from the send) resolves the call.
C15_RegisteredBeforeSend ==
    /\ [](\A k \in Calls :
            (call[k].pc \in {"sending", "await"} /\ call[k].tag \in envelopes)
            => \E e \in pending : e.tag = call[k].tag /\ e.call = k)
    /\ [][\A k \in Calls :
            (obs'.effect = "forwarded"
               /\ call[k].pc \in {"sending", "await"}
               /\ obs'.frame.syncId = <<call[k].tag>>)
            => call'[k].pc = "resolved"
         ]_vars

\* C16: a call that fails with NotConnected leaves the Correlation Store
\* unchanged: it does not advance the tag sequence and creates no Pending
\* Call Entry.
C16_NotConnectedLeavesStore ==
    [][\A k \in Calls :
          (call[k].pc = "idle" /\ call'[k].pc # "idle"
             /\ call'[k].outcome = "NotConnected") =>
              /\ nextTag' = nextTag
              /\ pending' = pending
      ]_vars

\* the step just taken is a failure of session i: its first frame could not
\* be read or used, bot_connect raised, or its receive loop raised or found
\* the channel closed
FailureStep(i) ==
    obs'.id = i /\ obs'.effect \in {"hs_closed", "hs_raised", "accept_raised",
                                    "raised", "closed"}

\* C17: a session task ends only by a handshake rejection or a cancellation;
\* a connect error, a failure on the first frame and a failure of the
\* receive loop all lead to the reconnect sleep, and a sleeping session that
\* is not cancelled connects again, however often it has failed before.
C17_FailuresAreRetried ==
    /\ [][\A i \in Ids :
            /\ (~TaskDone(i) /\ pc'[i] \in {"rejected", "cancelled"}) =>
                   \/ /\ pc'[i] = "rejected"
                      /\ pc[i] = "handshake"
                      /\ obs'.id = i /\ obs'.effect = "rejected"
                   \/ pc'[i] = "cancelled" /\ cancelReq[i]
            /\ FailureStep(i) => pc'[i] = "sleep"
            /\ (pc[i] = "connecting" /\ pc'[i] \notin {"connecting", "handshake"})
                   => pc'[i] \in {"sleep", "cancelled"}
            /\ (pc[i] \in {"connecting", "handshake", "open", "sleep"}) =>
                   pc'[i] \in {"connecting", "handshake", "open", "sleep",
                               "rejected", "cancelled"}
         ]_vars
    /\ \A i \in Ids : []<>(pc[i] # "sleep")

\* a session fails on a connection that follows an earlier failure of its own
C17_Witness ==
    /\ obs.effect = "hs_closed"
    /\ pc[obs.id] = "sleep"
    /\ connections[obs.id] = "stale"

\* the step just taken is a handshake rejection or a connection failure of
\* session i
RejectionOrFailure(i) ==
    \/ FailureStep(i)
    \/ obs'.id = i /\ obs'.effect = "rejected"
    \/ pc[i] = "connecting" /\ pc'[i] = "sleep"

\* C18: a handshake rejection or connection failure of one identity changes
\* nothing for any other identity: position of the session task, channel,
\* registry entry, callbacks fired and pending cancellation are unchanged,
\* and a task that was running still runs.
C18_OtherSessionsUntouched ==
    [][\A i \in Ids :
          RejectionOrFailure(i) =>
              \A j \in Ids \ {i} :
                  /\ pc'[j] = pc[j]
                  /\ chan'[j] = chan[j]
                  /\ connections'[j] = connections[j]
                  /\ driverBots'[j] = driverBots[j]
                  /\ seenByHook'[j] = seenByHook[j]
                  /\ bot'[j] = bot[j]
                  /\ cancelReq'[j] = cancelReq[j]
      ]_vars

\* a session has just been rejected while another one is Open
C18_Witness ==
    /\ obs.effect = "rejected"
    /\ pc[obs.id] = "rejected"
    /\ \E j \in Ids :
           /\ j # obs.id
           /\ pc[j] = "open"
           /\ connections[j] = "live"
           /\ driverBots[j] = 1

\* C19: the Connection Registry holds an entry for an identity only while
\* its session is Open: there is none while the session connects, reads its
\* first frame, sleeps before a reconnect, or after its task has ended.
C19_EntryOnlyWhileOpen ==
    \A i \in Ids : connections[i] # "none" => pc[i] = "open"

\* C20: for each identity connect and disconnect callbacks alternate,
\* starting with a connect: a connect fires only when every earlier one is
\* matched, a disconnect only when one connect is unmatched; the connect
\* callback finds the registry entry written and the disconnect callback
\* finds it removed.
C20_CallbacksAlternate ==
    /\ [](\A i \in Ids : driverBots[i] \in {0, 1})
    /\ [][\A i \in Ids :
            /\ driverBots'[i] > driverBots[i] =>
                   /\ driverBots[i] = 0 /\ driverBots'[i] = 1
                   /\ seenByHook'[i] = "live"
                   /\ connections'[i] = "live"
            /\ driverBots'[i] < driverBots[i] =>
                   /\ driverBots[i] = 1 /\ driverBots'[i] = 0
                   /\ seenByHook'[i] = "none"
                   /\ connections'[i] = "none"
            /\ seenByHook'[i] # seenByHook[i] => driverBots'[i] # driverBots[i]
         ]_vars

\* one session has connected and disconnected, another one is connected
C20_Witness ==
    /\ obs.effect = "closed"
    /\ driverBots[obs.id] = 0
    /\ seenByHook[obs.id] = "none"
    /\ \E j \in Ids : driverBots[j] = 1 /\ seenByHook[j] = "live"

====
